---- MODULE Spec2Model ----
(***************************************************************************)
(* The weekly AI-analysis pipeline of the dashboard: the AIAnalysis        *)
(* component (effect, refresh click, single-flight flag), the coordinator  *)
(* generateWeeklyAnalysis, the fallback orchestrator callGeminiAPI, the    *)
(* cache client (getCachedAnalysis / setCachedAnalysis, production path)   *)
(* and the /api/analysis handler over Redis.                               *)
(***************************************************************************)
EXTENDS Integers, Sequences, FiniteSets, TLC

VARIABLES
    periodFilter,      \* prop periodFilter of the component
    data,              \* prop data: "none" (empty) or the fingerprint of the rows
    analysis,          \* useState analysis
    loading,           \* useState loading
    error,             \* useState error
    isGenerating,      \* isGeneratingRef.current
    lastProcessedKey,  \* lastProcessedKeyRef.current
    effectPending,     \* a committed render whose effect has not run yet
    lastTrigger,       \* what the last effect firing / refresh click did
    calls,             \* the calls of generateWeeklyAnalysis in flight
    redis,             \* the Redis keys analysis:{day}:{key} and ...:timestamp
    now,               \* the wall clock
    selections,        \* per browser: selectedCampaign, the rows' totals, the day
    cacheKeys,         \* per browser: the two Redis keys of its last request
    request            \* one HTTP request to /api/analysis and its handler run

vars == <<periodFilter, data, analysis, loading, error, isGenerating,
          lastProcessedKey, effectPending, lastTrigger, calls, redis, now,
          selections, cacheKeys, request>>

\* the variables of the key derivation
keyVars == <<selections, cacheKeys>>

uiVars == <<periodFilter, data, analysis, loading, error, isGenerating,
            lastProcessedKey, effectPending, lastTrigger, keyVars, request>>

----------------------------------------------------------------------------
(* Bounds of the model *)

NumSlots == 2
MaxNow == 2
DayLen == 2
\* the days of the history window and of the retention (30 in the source)
WindowDays == 2

Slots == 1..NumSlots
Times == 0..MaxNow
DayOf(t) == t \div DayLen
Today == DayOf(now)
Days == 0..DayOf(MaxNow)

Keys == {"k1", "k2"}
Null == "null"
NoTs == -1

\* the EX argument of redis.set: 2592000 s, 30 days
TTL == WindowDays * DayLen

----------------------------------------------------------------------------
(* The fingerprint (dataKey) and the Redis keys built from it.  Strings are
   sequences of characters. *)

\* the browsers on one deployment
SharedClients == {1, 2}

MaxRecords == 2
MaxImpressions == 2

\* selectedCampaign: null, or a name of the sheet's campaign column, verbatim
NoCampaign == <<"null">>
CampaignNames ==
    { <<>>,
      <<"a">>,
      <<"a", "l", "l">>,
      <<"a", ":", "b">>,
      <<"a", "-", "1", "-", "0", ":", "t", "i", "m", "e", "s", "t", "a", "m", "p">> }

Digit(n) == <<"0", "1", "2", "3", "4", "5", "6", "7", "8", "9">>[n + 1]

\* the template literal's rendering of a non-negative integer
RECURSIVE NumberToString(_)
NumberToString(n) ==
    IF n < 10 THEN <<Digit(n)>>
    ELSE NumberToString(n \div 10) \o <<Digit(n % 10)>>

\* new Date().toISOString().split('T')[0]: the day d of the model's month
DateString(d) ==
    <<"2", "0", "2", "6", "-", "1", "1", "-">> \o
    (IF d + 1 < 10 THEN <<"0">> ELSE <<>>) \o NumberToString(d + 1)

\* a fingerprint that joins its three parts with ':'
dataKeyString_colons(selectedCampaign, totalRecords, totalImpressions) ==
    (IF selectedCampaign \in {NoCampaign, <<>>} THEN <<"a", "l", "l">>
     ELSE selectedCampaign)
    \o <<":">> \o NumberToString(totalRecords)
    \o <<":">> \o NumberToString(totalImpressions)

\* `${selectedCampaign || 'all'}-${totalRecords}-${totalImpressions}`
dataKeyString(selectedCampaign, totalRecords, totalImpressions) ==
    (IF selectedCampaign \in {NoCampaign, <<>>} THEN <<"a", "l", "l">>
     ELSE selectedCampaign)
    \o <<"-">> \o NumberToString(totalRecords)
    \o <<"-">> \o NumberToString(totalImpressions)

\* `analysis:${targetDate}:${dataKey}`
cacheKey(targetDate, key) ==
    <<"a", "n", "a", "l", "y", "s", "i", "s", ":">> \o targetDate \o <<":">> \o key

\* `${cacheKey}:timestamp`
timestampKey(targetDate, key) ==
    cacheKey(targetDate, key) \o <<":", "t", "i", "m", "e", "s", "t", "a", "m", "p">>

\* what a browser's component is rendering: the selection, the totals of its
\* rows (at least one row, under the 7-day filter) and the day
Selections ==
    [selectedCampaign : CampaignNames \cup {NoCampaign},
     totalRecords : 1..MaxRecords,
     totalImpressions : 0..MaxImpressions,
     day : Days]

NoSelection ==
    [selectedCampaign |-> NoCampaign, totalRecords |-> 1, totalImpressions |-> 0,
     day |-> 0]

\* the keys the handler builds for a request of that component
KeysOf(sel) ==
    LET key == dataKeyString(sel.selectedCampaign, sel.totalRecords,
                             sel.totalImpressions)
    IN  [dataKey |-> key,
         text |-> cacheKey(DateString(sel.day), key),
         timestamp |-> timestampKey(DateString(sel.day), key)]

\* a browser renders a selection and sends a request for it
KeyRequest ==
    /\ \E s \in SharedClients, sel \in Selections :
          /\ sel # selections[s]
          /\ selections' = [selections EXCEPT ![s] = sel]
          /\ cacheKeys' = [cacheKeys EXCEPT ![s] = KeysOf(sel)]
    /\ UNCHANGED <<periodFilter, data, analysis, loading, error, isGenerating,
                   lastProcessedKey, effectPending, lastTrigger, calls, redis, now,
                   request>>

\* no key derivation is looked at
KeysIdle ==
    /\ selections = [s \in SharedClients |-> NoSelection]
    /\ cacheKeys = [s \in SharedClients |-> KeysOf(NoSelection)]

----------------------------------------------------------------------------
(* Backends and their responses *)

MODELS == <<"gemini-robotics-er-1.5-preview", "gemini-2.5-flash-lite", "gemini-2.5-flash">>

\* texts a backend may answer in candidates[0].content.parts[0].text ("" too)
GenTexts == {"ga", "gb"}

NoDataText == "Nao ha dados disponiveis para analise desta semana."

\* A response of one backend call: an HTTP status (0: no response at all, a
\* network error or the 30 s timeout, error.response undefined) and, for a 200,
\* the text of the first candidate or "nocandidates".
Responses ==
    {[status |-> 200, body |-> b] : b \in GenTexts \cup {"", "nocandidates"}}
    \cup {[status |-> s, body |-> "error"] : s \in {400, 401, 403, 429, 500, 503, 0}}

\* one response of each class the orchestrator tells apart: a text, a retryable
\* status, a fatal status
UiResponses ==
    {r \in Responses : r.status \in {429, 400} \/ r.body \in GenTexts}

NoError == [kind |-> "none", status |-> -1, model |-> 0, count |-> 0]

NoResponse == [status |-> -1, body |-> "none"]
\* the two keys of an entry, analysis:{day}:{key} and ...:timestamp, each with
\* the time at which Redis drops it
NoEntry == [text |-> Null, ts |-> NoTs, textExp |-> NoTs, tsExp |-> NoTs]

\* One call of generateWeeklyAnalysis.  Arguments: empty (currentWeekData is
\* empty), key (dataKey), force (forceRefresh).  Locals of callGeminiAPI: i,
\* lastError.  analysis / cached text: text.  Locals of the handler serving the
\* call's request: day (the day of cacheKey), ts (timestamp).  Result: rkind
\* ("ok": the returned object ranalysis / rcached / rts; "error": the thrown
\* rerror).  Observations of the run: invoked (the models called, in order),
\* resp (the last backend response), getReqs / postReqs (requests sent to
\* /api/analysis), getStatus (how the GET ended: 200, 404, 500 for any failure),
\* atRead (what Redis held under today's key when the GET was served or lost),
\* saved / savedText (timestamp and analysis in the 200 answer of the POST),
\* issued (when the POST was sent), hist (the array the history branch builds).
IdleCall ==
    [pc |-> "idle", owner |-> "none", empty |-> FALSE, key |-> Null, force |-> FALSE,
     i |-> 0, lastError |-> NoError, text |-> Null,
     day |-> 0, ts |-> NoTs,
     rkind |-> "none", ranalysis |-> Null, rcached |-> FALSE, rts |-> NoTs,
     rerror |-> NoError,
     invoked |-> <<>>, resp |-> NoResponse, getReqs |-> 0, postReqs |-> 0,
     getStatus |-> 0, atRead |-> [text |-> Null, ts |-> NoTs], saved |-> NoTs,
     savedText |-> Null, issued |-> NoTs, hist |-> <<>>]

\* JavaScript truthiness of a stored / posted string
Truthy(s) == s # Null /\ s # ""

\* req.body of a request sent without a body is undefined
NoBody == [present |-> FALSE, dataKey |-> Null, analysis |-> Null]

\* One HTTP request to /api/analysis: req.method, whether req.url includes
\* '/history', req.query, req.body; run holds the locals of the handler serving
\* it (pc, key: dataKey, text: analysis / cached, day: the day of cacheKey, ts:
\* timestamp, i, hist); status is res.status; gets / sets count the commands
\* the handler has sent to Redis.
NoRequest ==
    [method |-> "GET", history |-> FALSE,
     query |-> [dataKey |-> Null, date |-> NoTs], body |-> NoBody,
     run |-> IdleCall, status |-> 0, gets |-> 0, sets |-> 0]

\* no request is being served
HttpIdle == request = NoRequest

----------------------------------------------------------------------------
(* callGeminiAPI: one iteration of the loop over MODELS, given the response of
   MODELS[c.i] (c.i counts from 0 as in the code) *)

NumModels == Len(MODELS)

\* the fatal test without 401
Fatal_without401(status) == status = 400 \/ status = 403

Retryable(status) == status = 429 \/ status = 503 \/ status = 500
Fatal(status) == status = 400 \/ status = 403 \/ status = 401

\* callGeminiAPI throws e: its locals i and lastError end, the catch of
\* generateWeeklyAnalysis rethrows new Error(e.message)
Throw(c, e) ==
    [c EXCEPT !.pc = "done", !.i = 0, !.lastError = NoError, !.rkind = "error",
              !.rerror = e]

\* callGeminiAPI returns text: generateWeeklyAnalysis goes on to
\* setCachedAnalysis(dataKey, analysis), which issues the POST
Return(c, text) ==
    [c EXCEPT !.pc = "write", !.i = 0, !.lastError = NoError, !.text = text,
              !.postReqs = c.postReqs + 1, !.issued = now, !.saved = NoTs,
              !.savedText = Null]

\* a loop that stops one model short
NextModel_oneShort(c) ==
    IF c.i + 1 < NumModels - 1
    THEN [c EXCEPT !.pc = "invoke", !.i = c.i + 1]
    ELSE Throw(c, [kind |-> "exhausted", status |-> c.lastError.status,
                   model |-> c.lastError.model, count |-> NumModels])

\* a loop whose continue comes back to the same model
NextModel_sameModel(c) ==
    IF c.i + 1 < NumModels
    THEN [c EXCEPT !.pc = "invoke"]
    ELSE Throw(c, [kind |-> "exhausted", status |-> c.lastError.status,
                   model |-> c.lastError.model, count |-> NumModels])

\* the loop's i++ and its test i < MODELS.length; after the loop the aggregate throw
NextModel(c) ==
    IF c.i + 1 < NumModels
    THEN [c EXCEPT !.pc = "invoke", !.i = c.i + 1]
    ELSE Throw(c, [kind |-> "exhausted", status |-> c.lastError.status,
                   model |-> c.lastError.model, count |-> NumModels])

\* callGeminiAPI that keeps the text of a success but goes on with the loop
callGeminiAPI_noEarlyReturn(c, r) ==
    LET m == c.i + 1
        c1 == [c EXCEPT !.invoked = Append(c.invoked, m), !.resp = r]
    IN  IF r.status = 200
        THEN IF r.body # "nocandidates"
             THEN IF c.i + 1 < NumModels
                  THEN [c1 EXCEPT !.pc = "invoke", !.i = c.i + 1, !.text = r.body]
                  ELSE Return(c1, r.body)
             ELSE NextModel([c1 EXCEPT !.lastError =
                      [kind |-> "nocontent", status |-> 200, model |-> m, count |-> 0]])
        ELSE LET c2 == [c1 EXCEPT !.lastError =
                      [kind |-> "failed", status |-> r.status, model |-> 0, count |-> 0]]
             IN  IF Retryable(r.status)
                 THEN IF c.i < NumModels - 1
                      THEN [c2 EXCEPT !.pc = "backoff"]
                      ELSE NextModel(c2)
                 ELSE IF Fatal(r.status)
                 THEN Throw(c2, [kind |-> "fatal", status |-> r.status,
                                 model |-> 0, count |-> 0])
                 ELSE IF c.i < NumModels - 1
                      THEN [c2 EXCEPT !.pc = "backoff"]
                      ELSE NextModel(c2)

\* callGeminiAPI that does not record a 200 without candidates in lastError
callGeminiAPI_nocontentNotRecorded(c, r) ==
    LET m == c.i + 1
        c1 == [c EXCEPT !.invoked = Append(c.invoked, m), !.resp = r]
    IN  IF r.status = 200
        THEN IF r.body # "nocandidates"
             THEN Return(c1, r.body)
             ELSE NextModel(c1)
        ELSE LET c2 == [c1 EXCEPT !.lastError =
                      [kind |-> "failed", status |-> r.status, model |-> 0, count |-> 0]]
             IN  IF Retryable(r.status)
                 THEN IF c.i < NumModels - 1
                      THEN [c2 EXCEPT !.pc = "backoff"]
                      ELSE NextModel(c2)
                 ELSE IF Fatal(r.status)
                 THEN Throw(c2, [kind |-> "fatal", status |-> r.status,
                                 model |-> 0, count |-> 0])
                 ELSE IF c.i < NumModels - 1
                      THEN [c2 EXCEPT !.pc = "backoff"]
                      ELSE NextModel(c2)

\* callGeminiAPI that goes on at once after an error it does not classify
callGeminiAPI_noWaitOnUnknown(c, r) ==
    LET m == c.i + 1
        c1 == [c EXCEPT !.invoked = Append(c.invoked, m), !.resp = r]
    IN  IF r.status = 200
        THEN IF r.body # "nocandidates"
             THEN Return(c1, r.body)
             ELSE NextModel([c1 EXCEPT !.lastError =
                      [kind |-> "nocontent", status |-> 200, model |-> m, count |-> 0]])
        ELSE LET c2 == [c1 EXCEPT !.lastError =
                      [kind |-> "failed", status |-> r.status, model |-> 0, count |-> 0]]
             IN  IF Retryable(r.status)
                 THEN IF c.i < NumModels - 1
                      THEN [c2 EXCEPT !.pc = "backoff"]
                      ELSE NextModel(c2)
                 ELSE IF Fatal(r.status)
                 THEN Throw(c2, [kind |-> "fatal", status |-> r.status,
                                 model |-> 0, count |-> 0])
                 ELSE NextModel(c2)

callGeminiAPI(c, r) ==
    LET m == c.i + 1
        c1 == [c EXCEPT !.invoked = Append(c.invoked, m), !.resp = r]
    IN  IF r.status = 200
        THEN IF r.body # "nocandidates"
             THEN \* candidates present: return the text, leave the loop
                  Return(c1, r.body)
             ELSE \* 200 without candidates: lastError, next model at once
                  NextModel([c1 EXCEPT !.lastError =
                      [kind |-> "nocontent", status |-> 200, model |-> m, count |-> 0]])
        ELSE LET c2 == [c1 EXCEPT !.lastError =
                      [kind |-> "failed", status |-> r.status, model |-> 0, count |-> 0]]
             IN  IF Retryable(r.status)
                 THEN IF c.i < NumModels - 1
                      THEN [c2 EXCEPT !.pc = "backoff"]
                      ELSE NextModel(c2)
                 ELSE IF Fatal(r.status)
                 THEN Throw(c2, [kind |-> "fatal", status |-> r.status,
                                 model |-> 0, count |-> 0])
                 ELSE IF c.i < NumModels - 1
                      THEN [c2 EXCEPT !.pc = "backoff"]
                      ELSE NextModel(c2)

\* one backend call of a run: axios.post to MODELS[i] answers some r of R
Invoke(s, R) ==
    /\ calls[s].pc = "invoke"
    /\ \E r \in R : calls' = [calls EXCEPT ![s] = callGeminiAPI(calls[s], r)]
    /\ UNCHANGED <<uiVars, redis, now>>

\* the 2 s setTimeout before the next model, then continue
Backoff(s) ==
    /\ calls[s].pc = "backoff"
    /\ calls' = [calls EXCEPT ![s] = NextModel(calls[s])]
    /\ UNCHANGED <<uiVars, redis, now>>

----------------------------------------------------------------------------
(* getCachedAnalysis over GET /api/analysis *)

\* the values of the two keys of an entry
Values(e) == [text |-> e.text, ts |-> e.ts]

\* handler: redis.get(cacheKey) of today's key; a miss answers 404 -> null
HandlerGetText(c) ==
    LET cached == redis[<<Today, c.key>>].text
    IN  IF Truthy(cached)
        THEN [c EXCEPT !.pc = "readTs", !.day = Today, !.text = cached,
                       !.atRead = Values(redis[<<Today, c.key>>])]
        ELSE [c EXCEPT !.pc = "invoke", !.getStatus = 404,
                       !.atRead = Values(redis[<<Today, c.key>>])]

\* a handler that answers the time of the request, not the stored timestamp
HandlerGetTs_ignoresStored(c) ==
    [c EXCEPT !.pc = "done", !.day = 0, !.getStatus = 200, !.rkind = "ok",
              !.ranalysis = c.text, !.rcached = TRUE, !.rts = now]

\* a client that drops the cached answer and generates all the same
HandlerGetTs_hitRegenerates(c) ==
    [c EXCEPT !.pc = "invoke", !.day = 0, !.text = Null, !.getStatus = 200]

\* handler: redis.get(cacheKey:timestamp), 200 {analysis, cached: true, timestamp}
HandlerGetTs(c) ==
    LET timestamp == redis[<<c.day, c.key>>].ts
    IN  [c EXCEPT !.pc = "done", !.day = 0, !.getStatus = 200, !.rkind = "ok",
                  !.ranalysis = c.text, !.rcached = TRUE,
                  !.rts = IF timestamp # NoTs THEN timestamp ELSE now]

ReadText(s) ==
    /\ calls[s].pc = "read"
    /\ calls' = [calls EXCEPT ![s] = HandlerGetText(calls[s])]
    /\ UNCHANGED <<uiVars, redis, now>>

ReadTs(s) ==
    /\ calls[s].pc = "readTs"
    /\ calls' = [calls EXCEPT ![s] = HandlerGetTs(calls[s])]
    /\ UNCHANGED <<uiVars, redis, now>>

\* a getCachedAnalysis that lets the failure of its GET escape
ReadFail_throws(s) ==
    LET c == calls[s]
    IN  /\ c.pc \in {"read", "readTs"}
        /\ calls' = [calls EXCEPT ![s] =
               Throw([c EXCEPT !.text = Null, !.day = 0, !.getStatus = 500,
                               !.atRead = IF c.pc = "read"
                                          THEN Values(redis[<<Today, c.key>>])
                                          ELSE c.atRead],
                     [kind |-> "cache", status |-> 500, model |-> 0, count |-> 0])]
        /\ UNCHANGED <<uiVars, redis, now>>

\* a Redis error (500), a network error or the 5 s timeout: the outer catch of
\* getCachedAnalysis returns null
ReadFail(s) ==
    LET c == calls[s]
    IN  /\ c.pc \in {"read", "readTs"}
        /\ calls' = [calls EXCEPT ![s] =
               [c EXCEPT !.pc = "invoke", !.text = Null, !.day = 0, !.getStatus = 500,
                         !.atRead = IF c.pc = "read" THEN Values(redis[<<Today, c.key>>])
                                    ELSE c.atRead]]
        /\ UNCHANGED <<uiVars, redis, now>>

----------------------------------------------------------------------------
(* setCachedAnalysis over POST /api/analysis, then the return of
   generateWeeklyAnalysis *)

Generated(c) ==
    [c EXCEPT !.pc = "done", !.day = 0, !.ts = NoTs, !.rkind = "ok",
              !.ranalysis = c.text, !.rcached = FALSE, !.rts = now]

\* handleSaveEdit after its fetch: response.ok or the alert
Saved(c) ==
    [c EXCEPT !.pc = "done", !.day = 0, !.ts = NoTs,
              !.rkind = IF c.saved # NoTs THEN "saved" ELSE "failed"]

\* what follows the POST: the rest of generateWeeklyAnalysis or of handleSaveEdit
AfterPost(c) == IF c.owner = "save" THEN Saved(c) ELSE Generated(c)

\* a handler that never sets the :timestamp key
SetEntryTs_dropped(r, d, k, ts) == r

\* a handler whose SET of the text goes to the key of the day before
SetEntryText_dayBefore(r, d, k, text) ==
    LET e == IF d > 0 THEN d - 1 ELSE d
    IN  [r EXCEPT ![<<e, k>>].text = text, ![<<e, k>>].textExp = now + TTL]

\* a handler whose cache key leaves the fingerprint out
SetEntryText_noFingerprint(r, d, k, text) ==
    [e \in DOMAIN r |->
        IF e[1] = d THEN [r[e] EXCEPT !.text = text, !.textExp = now + TTL] ELSE r[e]]

SetEntryText(r, d, k, text) ==
    [r EXCEPT ![<<d, k>>].text = text, ![<<d, k>>].textExp = now + TTL]

\* a handler that sets the :timestamp key without 'EX'
SetEntryTs_noExpiry(r, d, k, ts) ==
    [r EXCEPT ![<<d, k>>].ts = ts]

SetEntryTs(r, d, k, ts) ==
    [r EXCEPT ![<<d, k>>].ts = ts, ![<<d, k>>].tsExp = now + TTL]

\* handler: !analysis takes the GET branch (no write); else redis.set(cacheKey)
WriteText(s) ==
    LET c == calls[s]
    IN  /\ c.pc = "write"
        /\ IF Truthy(c.text)
           THEN /\ redis' = SetEntryText(redis, Today, c.key, c.text)
                /\ calls' = [calls EXCEPT ![s] =
                       [c EXCEPT !.pc = "writeTs", !.day = Today, !.ts = now]]
           ELSE /\ redis' = redis
                /\ calls' = [calls EXCEPT ![s] = AfterPost(c)]
        /\ UNCHANGED <<uiVars, now>>

\* handler: redis.set(cacheKey:timestamp, timestamp)
WriteTs(s) ==
    LET c == calls[s]
    IN  /\ c.pc = "writeTs"
        /\ redis' = SetEntryTs(redis, c.day, c.key, c.ts)
        /\ calls' = [calls EXCEPT ![s] =
               AfterPost([c EXCEPT !.saved = c.ts, !.savedText = c.text])]
        /\ UNCHANGED <<uiVars, now>>

\* a setCachedAnalysis that lets the error of its POST escape
WriteFail_throws(s) ==
    /\ calls[s].pc \in {"write", "writeTs"}
    /\ calls' = [calls EXCEPT ![s] =
           Throw(calls[s], [kind |-> "cache", status |-> 500, model |-> 0,
                            count |-> 0])]
    /\ UNCHANGED <<uiVars, redis, now>>

\* the POST fails (Redis error, network): setCachedAnalysis logs and returns
WriteFail(s) ==
    /\ calls[s].pc \in {"write", "writeTs"}
    /\ calls' = [calls EXCEPT ![s] = AfterPost(calls[s])]
    /\ UNCHANGED <<uiVars, redis, now>>

----------------------------------------------------------------------------
(* generateWeeklyAnalysis up to its first await *)

\* generateWeeklyAnalysis that consults the cache before looking at the rows
generateWeeklyAnalysis_cacheFirst(owner, empty, key, force) ==
    LET c == [IdleCall EXCEPT !.owner = owner, !.empty = empty, !.key = key,
                              !.force = force]
    IN  IF ~force
        THEN [c EXCEPT !.pc = "read", !.getReqs = 1]
        ELSE IF empty
        THEN [c EXCEPT !.pc = "done", !.rkind = "ok", !.ranalysis = NoDataText,
                       !.rcached = FALSE, !.rts = now]
        ELSE [c EXCEPT !.pc = "invoke"]

\* generateWeeklyAnalysis that consults the cache on a forced refresh too
generateWeeklyAnalysis_ignoresForce(owner, empty, key, force) ==
    LET c == [IdleCall EXCEPT !.owner = owner, !.empty = empty, !.key = key,
                              !.force = force]
    IN  IF empty
        THEN [c EXCEPT !.pc = "done", !.rkind = "ok", !.ranalysis = NoDataText,
                       !.rcached = FALSE, !.rts = now]
        ELSE [c EXCEPT !.pc = "read", !.getReqs = 1]

generateWeeklyAnalysis(owner, empty, key, force) ==
    LET c == [IdleCall EXCEPT !.owner = owner, !.empty = empty, !.key = key,
                              !.force = force]
    IN  IF empty
        THEN [c EXCEPT !.pc = "done", !.rkind = "ok", !.ranalysis = NoDataText,
                       !.rcached = FALSE, !.rts = now]
        ELSE IF ~force
        THEN [c EXCEPT !.pc = "read", !.getReqs = 1]
        ELSE [c EXCEPT !.pc = "invoke"]

FreeSlots == {s \in Slots : calls[s].pc = "idle"}
FirstFree == CHOOSE s \in FreeSlots : \A t \in FreeSlots : s <= t

\* Redis at time t: every key whose time to live has elapsed is gone
Expire(r, t) ==
    [e \in DOMAIN r |->
        [text    |-> IF r[e].textExp # NoTs /\ r[e].textExp <= t THEN Null ELSE r[e].text,
         textExp |-> IF r[e].textExp # NoTs /\ r[e].textExp <= t THEN NoTs ELSE r[e].textExp,
         ts      |-> IF r[e].tsExp # NoTs /\ r[e].tsExp <= t THEN NoTs ELSE r[e].ts,
         tsExp   |-> IF r[e].tsExp # NoTs /\ r[e].tsExp <= t THEN NoTs ELSE r[e].tsExp]]

\* the clock advances by step, up to max
Advance(step, max) ==
    /\ now + step <= max
    /\ now' = now + step
    /\ redis' = Expire(redis, now + step)
    /\ UNCHANGED <<uiVars, calls>>

Tick == Advance(1, MaxNow)

CallStep(R) ==
    \E s \in Slots :
        \/ ReadText(s)
        \/ ReadTs(s)
        \/ ReadFail(s)
        \/ Invoke(s, R)
        \/ Backoff(s)
        \/ WriteText(s)
        \/ WriteTs(s)
        \/ WriteFail(s)

----------------------------------------------------------------------------
(* A client calling generateWeeklyAnalysis directly *)

\* the fingerprints of the rows the client passes
ExtKeys == {"k1"}

ExtCall ==
    /\ \A s \in Slots : calls[s].owner # "ext"
    /\ FreeSlots # {}
    /\ \E empty \in BOOLEAN, key \in ExtKeys, force \in BOOLEAN :
          calls' = [calls EXCEPT ![FirstFree] =
                       generateWeeklyAnalysis("ext", empty, key, force)]
    /\ UNCHANGED <<uiVars, redis, now>>

ExtReturn ==
    /\ \E s \in Slots :
          /\ calls[s].pc = "done"
          /\ calls[s].owner = "ext"
          /\ calls' = [calls EXCEPT ![s] = IdleCall]
    /\ UNCHANGED <<uiVars, redis, now>>

\* the client whose POST was answered 200 calls again at once, not forced, with
\* the same rows, keeping the answer of the POST to compare
ExtReadBack ==
    /\ \E s \in Slots :
          LET c == calls[s]
          IN  /\ c.pc = "done"
              /\ c.owner = "ext"
              /\ c.saved # NoTs
              /\ calls' = [calls EXCEPT ![s] =
                    [generateWeeklyAnalysis("ext", FALSE, c.key, FALSE)
                        EXCEPT !.saved = c.saved, !.savedText = c.savedText,
                               !.issued = c.issued]]
    /\ UNCHANGED <<uiVars, redis, now>>

InitGen ==
    /\ periodFilter = "all"
    /\ data = "none"
    /\ analysis = ""
    /\ loading = FALSE
    /\ error = NoError
    /\ isGenerating = FALSE
    /\ lastProcessedKey = Null
    /\ effectPending = FALSE
    /\ lastTrigger = "none"
    /\ calls = [s \in Slots |-> IdleCall]
    /\ redis = [e \in Days \X Keys |-> NoEntry]
    /\ now = 0
    /\ KeysIdle
    /\ HttpIdle

NextGen ==
    \/ ExtCall
    \/ ExtReturn
    \/ ExtReadBack
    \/ CallStep(Responses)
    \/ Tick

SpecGen == InitGen /\ [][NextGen]_vars

\* every backend call is answered or cut by its 30 s timeout, and the 2 s timer
\* of the backoff fires
FairBackends ==
    \A s \in Slots : WF_vars(Invoke(s, Responses)) /\ WF_vars(Backoff(s))

SpecGenFair == SpecGen /\ FairBackends

----------------------------------------------------------------------------
(* The AIAnalysis component *)

\* useMemo dataKey: null unless the 7-day filter is on and there are rows
dataKey == IF periodFilter # "7days" \/ data = "none" THEN Null ELSE data

\* generateAnalysis that never raises isGeneratingRef
generateAnalysis_flagNeverSet(forceRefresh) ==
    IF isGenerating
    THEN UNCHANGED <<isGenerating, loading, error, calls>>
    ELSE IF dataKey = Null
    THEN UNCHANGED <<isGenerating, loading, error, calls>>
    ELSE /\ UNCHANGED isGenerating
         /\ loading' = TRUE
         /\ error' = NoError
         /\ FreeSlots # {}
         /\ calls' = [calls EXCEPT ![FirstFree] =
                generateWeeklyAnalysis("ui", data = "none", dataKey, forceRefresh)]

generateAnalysis(forceRefresh) ==
    IF isGenerating
    THEN UNCHANGED <<isGenerating, loading, error, calls>>
    ELSE IF dataKey = Null
    THEN UNCHANGED <<isGenerating, loading, error, calls>>
    ELSE /\ isGenerating' = TRUE
         /\ loading' = TRUE
         /\ error' = NoError
         /\ FreeSlots # {}
         /\ calls' = [calls EXCEPT ![FirstFree] =
                generateWeeklyAnalysis("ui", data = "none", dataKey, forceRefresh)]

\* the props change and the component renders; the effect is scheduled when one
\* of its dependencies [dataKey, periodFilter] changed
SetProps ==
    /\ ~effectPending
    /\ \E f \in {"7days", "all"}, d \in {"none"} \cup Keys :
          /\ <<f, d>> # <<periodFilter, data>>
          /\ periodFilter' = f
          /\ data' = d
          /\ effectPending' =
                (f # periodFilter
                 \/ dataKey # (IF f # "7days" \/ d = "none" THEN Null ELSE d))
    /\ UNCHANGED <<analysis, loading, error, isGenerating, lastProcessedKey,
                   lastTrigger, calls, redis, now, keyVars, request>>

\* the effect without its lastProcessedKeyRef test
Effect_noSameKeyTest ==
    /\ effectPending
    /\ effectPending' = FALSE
    /\ IF periodFilter = "7days" /\ data # "none" /\ dataKey # Null
       THEN IF isGenerating
            THEN /\ lastTrigger' = "effect-busy"
                 /\ UNCHANGED <<analysis, loading, error, isGenerating,
                                lastProcessedKey, calls>>
            ELSE /\ lastTrigger' = IF dataKey = lastProcessedKey THEN "effect-same"
                                   ELSE "effect-start"
                 /\ lastProcessedKey' = dataKey
                 /\ generateAnalysis(FALSE)
                 /\ UNCHANGED analysis
       ELSE /\ lastTrigger' = "effect-clear"
            /\ analysis' = ""
            /\ error' = NoError
            /\ lastProcessedKey' = Null
            /\ UNCHANGED <<loading, isGenerating, calls>>
    /\ UNCHANGED <<periodFilter, data, redis, now, keyVars, request>>

Effect ==
    /\ effectPending
    /\ effectPending' = FALSE
    /\ IF periodFilter = "7days" /\ data # "none" /\ dataKey # Null
       THEN IF dataKey = lastProcessedKey
            THEN /\ lastTrigger' = "effect-same"
                 /\ UNCHANGED <<analysis, loading, error, isGenerating,
                                lastProcessedKey, calls>>
            ELSE IF isGenerating
            THEN /\ lastTrigger' = "effect-busy"
                 /\ UNCHANGED <<analysis, loading, error, isGenerating,
                                lastProcessedKey, calls>>
            ELSE /\ lastTrigger' = "effect-start"
                 /\ lastProcessedKey' = dataKey
                 /\ generateAnalysis(FALSE)
                 /\ UNCHANGED analysis
       ELSE /\ lastTrigger' = "effect-clear"
            /\ analysis' = ""
            /\ error' = NoError
            /\ lastProcessedKey' = Null
            /\ UNCHANGED <<loading, isGenerating, calls>>
    /\ UNCHANGED <<periodFilter, data, redis, now, keyVars, request>>

\* the "Atualizar" button, rendered when !loading && analysis under the 7-day
\* filter; a click may still land on the button of the frame painted before
\* loading was set
handleRefreshClick ==
    /\ ~effectPending
    /\ periodFilter = "7days"
    /\ analysis # ""
    /\ lastTrigger' = IF isGenerating THEN "click-busy"
                      ELSE IF dataKey = Null THEN "click-nokey"
                      ELSE "click-start"
    /\ generateAnalysis(TRUE)
    /\ UNCHANGED <<periodFilter, data, analysis, lastProcessedKey, effectPending,
                   redis, now, keyVars, request>>

\* generateAnalysis releasing the flag at the end of the try block only
UiReturn_releaseInTry ==
    /\ \E s \in Slots :
          /\ calls[s].pc = "done"
          /\ calls[s].owner = "ui"
          /\ IF calls[s].rkind = "ok"
             THEN /\ analysis' = calls[s].ranalysis
                  /\ isGenerating' = FALSE
                  /\ UNCHANGED error
             ELSE /\ error' = calls[s].rerror
                  /\ UNCHANGED <<analysis, isGenerating>>
          /\ calls' = [calls EXCEPT ![s] = IdleCall]
    /\ loading' = FALSE
    /\ UNCHANGED <<periodFilter, data, lastProcessedKey, effectPending, lastTrigger,
                   redis, now, keyVars, request>>

\* a catch that also empties the analysis text
UiReturn_clearsOnError ==
    /\ \E s \in Slots :
          /\ calls[s].pc = "done"
          /\ calls[s].owner = "ui"
          /\ IF calls[s].rkind = "ok"
             THEN /\ analysis' = calls[s].ranalysis
                  /\ UNCHANGED error
             ELSE /\ error' = calls[s].rerror
                  /\ analysis' = ""
          /\ calls' = [calls EXCEPT ![s] = IdleCall]
    /\ loading' = FALSE
    /\ isGenerating' = FALSE
    /\ UNCHANGED <<periodFilter, data, lastProcessedKey, effectPending, lastTrigger,
                   redis, now, keyVars, request>>

\* generateAnalysis after its await: setAnalysis or the catch, then the finally
UiReturn ==
    /\ \E s \in Slots :
          /\ calls[s].pc = "done"
          /\ calls[s].owner = "ui"
          /\ IF calls[s].rkind = "ok"
             THEN /\ analysis' = calls[s].ranalysis
                  /\ UNCHANGED error
             ELSE /\ error' = calls[s].rerror
                  /\ UNCHANGED analysis
          /\ calls' = [calls EXCEPT ![s] = IdleCall]
    /\ loading' = FALSE
    /\ isGenerating' = FALSE
    /\ UNCHANGED <<periodFilter, data, lastProcessedKey, effectPending, lastTrigger,
                   redis, now, keyVars, request>>

\* the component mounts under the dashboard's initial filter, before the rows load
Init ==
    /\ periodFilter = "7days"
    /\ data = "none"
    /\ analysis = ""
    /\ loading = FALSE
    /\ error = NoError
    /\ isGenerating = FALSE
    /\ lastProcessedKey = Null
    /\ effectPending = TRUE
    /\ lastTrigger = "none"
    /\ calls = [s \in Slots |-> IdleCall]
    /\ redis = [e \in Days \X Keys |-> NoEntry]
    /\ now = 0
    /\ KeysIdle
    /\ HttpIdle

Next ==
    \/ SetProps
    \/ Effect
    \/ handleRefreshClick
    \/ UiReturn
    \/ CallStep(UiResponses)

Spec == Init /\ [][Next]_vars

----------------------------------------------------------------------------
(* Properties of the component, checked under Spec *)

\* the calls of generateWeeklyAnalysis the component has in flight
UiInFlight == {s \in Slots : calls[s].owner = "ui" /\ calls[s].pc # "idle"}

\* C1: single-flight per component: at most one generateWeeklyAnalysis call of
\* the component is in flight at any time, and an effect firing or refresh click
\* that arrives while isGenerating is set starts nothing: no call, no store
\* read, no backend invocation (calls and Redis are left as they are).
C1_SingleFlight ==
    [][/\ Cardinality(UiInFlight') <= 1
       /\ (isGenerating /\ (Effect \/ handleRefreshClick))
             => UNCHANGED <<calls, redis, isGenerating>>]_vars

\* a trigger was dropped while the one call of the component is in flight
C1_Witness ==
    /\ lastTrigger \in {"effect-busy", "click-busy"}
    /\ isGenerating
    /\ \E s \in UiInFlight : calls[s].pc \in {"read", "invoke", "backoff", "write"}

\* C8: guard release: the flag isGenerating is set exactly while a call of the
\* component is in flight, so after every exit of generateAnalysis (success,
\* fatal failure, exhaustion) it is false again.
C8_GuardReleased == isGenerating <=> (UiInFlight # {})

\* a generation ended in an error and the flag is down
C8_Witness ==
    /\ error.kind \in {"fatal", "exhausted"}
    /\ ~isGenerating
    /\ ~loading
    /\ UiInFlight = {}

\* C9: re-entrancy skip: an effect firing under the 7-day filter with rows and
\* a dataKey equal to the last processed key starts no generation: no call, no
\* store access, the flag and the last processed key stay as they are.
C9_SameKeySkipped ==
    [][(Effect /\ periodFilter = "7days" /\ data # "none"
          /\ dataKey = lastProcessedKey)
         => UNCHANGED <<calls, redis, isGenerating, lastProcessedKey, analysis>>]_vars

\* the effect fired with the key it processed last, with no call in flight
C9_Witness ==
    /\ lastTrigger = "effect-same"
    /\ dataKey = lastProcessedKey
    /\ dataKey # Null
    /\ ~isGenerating

\* the render: the narrative panel, {!loading && !error && analysis}, and the
\* error panel, {error}; nothing is rendered outside the 7-day filter
NarrativeShown ==
    periodFilter = "7days" /\ ~loading /\ error = NoError /\ analysis # ""
ErrorShown == periodFilter = "7days" /\ error # NoError

\* the step in which generateAnalysis catches the hard failure of its call
HardFailureCaught ==
    \E s \in Slots :
        /\ calls[s].pc = "done"
        /\ calls[s].owner = "ui"
        /\ calls[s].rkind = "error"
        /\ calls[s].rerror.kind \in {"fatal", "exhausted"}
        /\ calls'[s].pc = "idle"

C22_FailedKeyNotProcessed ==
    [][\A s \in Slots :
          (/\ calls[s].pc = "done"
           /\ calls[s].owner = "ui"
           /\ ~calls[s].force
           /\ calls[s].rkind = "error"
           /\ calls[s].rerror.kind \in {"fatal", "exhausted"}
           /\ calls'[s].pc = "idle")
             => lastProcessedKey' # calls[s].key]_vars

\* nothing of the component is left to run: no effect is pending and no call
\* is in flight
Quiescent == ~effectPending /\ ~isGenerating /\ UiInFlight = {}

\* C27: no stale narrative after a fingerprint change in flight: the effect
\* firing for K2 that was dropped while the generation for K1 ran is made up
\* for once that generation ends, so that in every quiescent state under the
\* 7-day filter with rows the analysis that is displayed was looked up or
\* generated for the current dataKey, the key it processed last.
C27_NoStaleNarrative ==
    (Quiescent /\ data # "none" /\ NarrativeShown)
       => lastProcessedKey = dataKey

\* C29: cleared view outside the 7-day filter: in every state in which no
\* generation is in flight (and the effect of the last render has run) and the
\* period filter is not '7days' or the data is empty, the analysis text is
\* empty, the error is null and the last processed key is null, also when the
\* filter was switched away during a generation that completed afterwards.
C29_ClearedOutsideSevenDays ==
    (Quiescent /\ (periodFilter # "7days" \/ data = "none"))
       => /\ analysis = ""
          /\ error = NoError
          /\ lastProcessedKey = Null

----------------------------------------------------------------------------
(* Properties of callGeminiAPI and generateWeeklyAnalysis, checked under SpecGen *)

\* a backend answer callGeminiAPI returns from: status 200 with a candidate
IsSuccess(r) == r.status = 200 /\ r.body # "nocandidates"

\* C2: the backends are invoked in list order, and as soon as one answers 200
\* with a candidate the run returns that backend's text: the call is past the
\* orchestrator with exactly that text, and no later backend was invoked (the
\* success stays the last response of the run).
C2_FirstSuccessWins ==
    \A s \in Slots :
        LET c == calls[s]
        IN  /\ \A j \in 1..Len(c.invoked) : c.invoked[j] = j
            /\ IsSuccess(c.resp) =>
                  /\ c.pc \in {"write", "writeTs", "done"}
                  /\ c.pc \in {"write", "writeTs"} => c.text = c.resp.body
                  /\ c.pc = "done" => c.rkind = "ok" /\ c.ranalysis = c.resp.body

\* the second backend succeeded after the first failed; the third was not called
C2_Witness ==
    \E s \in Slots :
        /\ calls[s].pc = "done"
        /\ calls[s].invoked = <<1, 2>>
        /\ IsSuccess(calls[s].resp)
        /\ calls[s].ranalysis \in GenTexts

\* C3: a backend answering 400, 401 or 403 ends the run at once with the fatal
\* error of that status; no backend after it is invoked.
C3_FatalAborts ==
    \A s \in Slots :
        LET c == calls[s]
        IN  c.resp.status \in {400, 401, 403} =>
               /\ c.pc = "done"
               /\ c.rkind = "error"
               /\ c.rerror.kind = "fatal"
               /\ c.rerror.status = c.resp.status

\* the first backend failed fatally: the call failed having invoked it alone
C3_Witness ==
    \E s \in Slots :
        /\ calls[s].pc = "done"
        /\ calls[s].rerror.kind = "fatal"
        /\ calls[s].invoked = <<1>>

\* C6: empty input: a call with empty currentWeekData is done at once with the
\* 'no data' text and cached = false, having sent no request to the store and
\* invoked no backend, whatever dataKey, forceRefresh and the store contents.
C6_EmptyInput ==
    \A s \in Slots :
        LET c == calls[s]
        IN  (c.pc # "idle" /\ c.empty) =>
               /\ c.pc = "done"
               /\ c.rkind = "ok"
               /\ c.ranalysis = NoDataText
               /\ ~c.rcached
               /\ c.getReqs = 0
               /\ c.postReqs = 0
               /\ c.invoked = <<>>

\* a non-forced call with no rows is done while the store holds an entry for
\* today and its key
C6_Witness ==
    \E s \in Slots :
        /\ calls[s].pc = "done"
        /\ calls[s].empty
        /\ ~calls[s].force
        /\ Truthy(redis[<<Today, calls[s].key>>].text)
        /\ calls[s].ranalysis = NoDataText

\* C10 as claimed: a run fails only after every backend of the list was invoked.
C10_FailsOnlyAfterAll ==
    \A s \in Slots :
        (calls[s].pc = "done" /\ calls[s].rkind = "error")
            => Len(calls[s].invoked) = NumModels

\* C10 amended: a run fails only if a backend failed with a fatal status (400,
\* 401, 403) or every backend of the list was invoked and the last one failed too.
C10_FailsOnlyFatalOrAll ==
    \A s \in Slots :
        LET c == calls[s]
        IN  (c.pc = "done" /\ c.rkind = "error") =>
               \/ /\ c.rerror.kind = "fatal"
                  /\ c.resp.status \in {400, 401, 403}
               \/ /\ c.rerror.kind = "exhausted"
                  /\ Len(c.invoked) = NumModels
                  /\ ~IsSuccess(c.resp)

\* a run failed after all three backends were invoked
C10_Witness ==
    \E s \in Slots :
        /\ calls[s].pc = "done"
        /\ calls[s].rerror.kind = "exhausted"
        /\ calls[s].invoked = <<1, 2, 3>>

\* an entry with both keys, the text and its timestamp
EntryComplete(e) == Truthy(e.text) /\ e.ts # NoTs

\* the call is past getCachedAnalysis
PastRead(c) == c.pc \notin {"idle", "read", "readTs"}

\* the call returned the entry it found: no backend, no POST
ReturnedCached(c) ==
    /\ c.pc = "done"
    /\ c.rkind = "ok"
    /\ c.rcached
    /\ c.ranalysis = c.atRead.text
    /\ c.invoked = <<>>
    /\ c.postReqs = 0

\* C4 as claimed: a non-forced call with rows, made when the store holds an
\* entry for (today, dataKey), returns the stored text with cached = true and
\* the stored timestamp, invokes no backend and writes nothing.
C4_HitWheneverStored ==
    \A s \in Slots :
        LET c == calls[s]
        IN  (PastRead(c) /\ ~c.force /\ ~c.empty /\ EntryComplete(c.atRead))
               => ReturnedCached(c) /\ c.rts = c.atRead.ts

\* C4 amended: the same, provided the GET of the entry does not fail (a failed
\* read is taken for a miss).
C4_HitWhenReadSucceeds ==
    \A s \in Slots :
        LET c == calls[s]
        IN  (PastRead(c) /\ ~c.force /\ ~c.empty /\ EntryComplete(c.atRead)
               /\ c.getStatus # 500)
               => ReturnedCached(c) /\ c.rts = c.atRead.ts

\* a hit on an entry written at an earlier time of the same day
C4_Witness ==
    \E s \in Slots :
        /\ calls[s].pc = "done"
        /\ ~calls[s].force
        /\ calls[s].rcached
        /\ calls[s].getStatus = 200
        /\ calls[s].rts < now

\* the entry of the day and key of a successful POST is the returned text with
\* the timestamp of that POST
StoredAsReturned(c) ==
    /\ c.saved # NoTs
    /\ redis[<<DayOf(c.saved), c.key>>].text = c.ranalysis
    /\ redis[<<DayOf(c.saved), c.key>>].ts = c.saved

\* the call ran the orchestrator once and returns what it returned
ReturnedGenerated(c) ==
    /\ c.rkind = "ok"
    /\ ~c.rcached
    /\ c.ranalysis = c.resp.body
    /\ c.postReqs = 1
    /\ c.invoked # <<>>
    /\ \A j \in 1..Len(c.invoked) : c.invoked[j] = j

\* C5 as claimed: on a miss the orchestrator runs once and, if it succeeds, the
\* generated text is written under (today, dataKey) with its timestamp and
\* returned with cached = false; a later non-forced call that finds the text
\* is a hit.
C5_MissAlwaysWritten ==
    \A s \in Slots :
        LET c == calls[s]
        IN  /\ (c.pc = "done" /\ ~c.force /\ ~c.empty /\ c.getStatus = 404
                  /\ IsSuccess(c.resp))
               => ReturnedGenerated(c) /\ StoredAsReturned(c)
            /\ (PastRead(c) /\ ~c.force /\ ~c.empty /\ Truthy(c.atRead.text))
               => ReturnedCached(c)

\* C5 amended: the text is returned with cached = false in any case, and it is
\* in the store under (day of the write, dataKey) when it is not empty and the
\* POST succeeded; a later non-forced call whose read succeeds and finds the
\* text is a hit.
C5_MissWrittenWhenPostSucceeds ==
    \A s \in Slots :
        LET c == calls[s]
        IN  /\ (c.pc = "done" /\ ~c.force /\ ~c.empty /\ c.getStatus = 404
                  /\ IsSuccess(c.resp))
               => /\ ReturnedGenerated(c)
                  /\ c.saved # NoTs => Truthy(c.ranalysis) /\ StoredAsReturned(c)
            /\ (PastRead(c) /\ ~c.force /\ ~c.empty /\ Truthy(c.atRead.text)
                  /\ c.getStatus # 500)
               => ReturnedCached(c)

\* a miss ended with the generated text written and returned
C5_Witness ==
    \E s \in Slots :
        /\ calls[s].pc = "done"
        /\ ~calls[s].force
        /\ calls[s].getStatus = 404
        /\ ~calls[s].rcached
        /\ StoredAsReturned(calls[s])

\* a forced call never sends the GET and, once done, has invoked a backend
ForcedSkipsCache(c) ==
    /\ c.getReqs = 0
    /\ c.getStatus = 0
    /\ c.pc \notin {"read", "readTs"}
    /\ c.pc = "done" => c.invoked # <<>>

\* C7 as claimed: a forced call with rows never reads the store, always runs the
\* orchestrator, and on success overwrites the entry and returns cached = false.
C7_ForcedAlwaysOverwrites ==
    \A s \in Slots :
        LET c == calls[s]
        IN  (c.pc # "idle" /\ c.force /\ ~c.empty) =>
               /\ ForcedSkipsCache(c)
               /\ (c.pc = "done" /\ c.rkind = "ok")
                     => ReturnedGenerated(c) /\ StoredAsReturned(c)

\* C7 amended: a forced call with rows never consults the cache, always runs the
\* orchestrator and on success returns cached = false; the entry is overwritten
\* with the returned text when that text is not empty and the POST succeeded.
C7_ForcedOverwritesWhenPostSucceeds ==
    \A s \in Slots :
        LET c == calls[s]
        IN  (c.pc # "idle" /\ c.force /\ ~c.empty) =>
               /\ ForcedSkipsCache(c)
               /\ (c.pc = "done" /\ c.rkind = "ok")
                     => /\ ReturnedGenerated(c)
                        /\ c.saved # NoTs => Truthy(c.ranalysis) /\ StoredAsReturned(c)

\* a forced call replaced the text of an existing entry and is about to replace
\* its timestamp
C7_Witness ==
    \E s \in Slots :
        LET c == calls[s]
        IN  /\ c.pc = "writeTs"
            /\ c.force
            /\ c.getReqs = 0
            /\ redis[<<c.day, c.key>>].text = c.text
            /\ redis[<<c.day, c.key>>].ts \notin {NoTs, c.ts}

\* C11: exhaustion: when every backend of the list was invoked, none succeeded
\* and the last one did not fail fatally, the run fails with the aggregate
\* error, which names the length of the list as the number of backends tried
\* and the failure of the last backend: its status, or for a 200 without
\* candidates that model's 'no valid content' error.
C11_ExhaustionReport ==
    \A s \in Slots :
        LET c == calls[s]
        IN  /\ (Len(c.invoked) = NumModels /\ ~IsSuccess(c.resp) /\ ~Fatal(c.resp.status))
               => /\ c.pc = "done"
                  /\ c.rkind = "error"
                  /\ c.rerror.kind = "exhausted"
                  /\ c.rerror.count = NumModels
                  /\ c.rerror.count = Len(c.invoked)
                  /\ c.rerror.status = c.resp.status
                  /\ c.rerror.model = IF c.resp.status = 200 THEN NumModels ELSE 0
            /\ (c.pc = "done" /\ c.rerror.kind = "exhausted")
               => Len(c.invoked) = NumModels /\ ~IsSuccess(c.resp)

\* the list was exhausted and its last backend answered 200 without candidates
C11_Witness ==
    \E s \in Slots :
        /\ calls[s].pc = "done"
        /\ calls[s].rerror.kind = "exhausted"
        /\ calls[s].invoked = <<1, 2, 3>>
        /\ calls[s].resp = [status |-> 200, body |-> "nocandidates"]
        /\ calls[s].rerror.model = 3

\* C15: failed persistence does not lose the result: when the orchestrator
\* succeeded and the POST of setCachedAnalysis then failed, generateWeeklyAnalysis
\* still returns the generated text with cached = false, and raises no error.
C15_FailedWriteKeepsResult ==
    \A s \in Slots :
        LET c == calls[s]
        IN  (c.pc = "done" /\ IsSuccess(c.resp) /\ c.saved = NoTs)
               => /\ c.rkind = "ok"
                  /\ c.rerror = NoError
                  /\ c.ranalysis = c.resp.body
                  /\ ~c.rcached
                  /\ c.postReqs = 1

\* a generated text was returned although none of it reached the store
C15_Witness ==
    \E s \in Slots :
        LET c == calls[s]
        IN  /\ c.pc = "done"
            /\ IsSuccess(c.resp)
            /\ c.saved = NoTs
            /\ c.postReqs = 1
            /\ c.ranalysis \in GenTexts
            /\ redis[<<Today, c.key>>].text = Null

\* the backend call of slot s is answered in this step
Invoked(s) ==
    /\ calls[s].pc = "invoke"
    /\ Len(calls'[s].invoked) = Len(calls[s].invoked) + 1

Trying(c) == c.pc \in {"invoke", "backoff"}
RunEnded(c) == c.invoked # <<>> /\ ~Trying(c)
Succeeded(c) == IsSuccess(c.resp) /\ c.rkind # "error"
FailedFatal(c) == c.rkind = "error" /\ c.rerror.kind = "fatal"
FailedExhausted(c) == c.rkind = "error" /\ c.rerror.kind = "exhausted"

\* C24: fallback state machine: within one run of callGeminiAPI the index of the
\* backend being tried only increases, each backend is invoked at most once, at
\* most N invocations are made, a run that ended is in exactly one of the
\* states Succeeded, FailedFatal, FailedExhausted, and, every backend call
\* returning or timing out, every run ends.
C24_FallbackStateMachine ==
    /\ [](\A s \in Slots :
            LET c == calls[s]
            IN  /\ Len(c.invoked) <= NumModels
                /\ \A j, k \in 1..Len(c.invoked) : j < k => c.invoked[j] < c.invoked[k]
                /\ Trying(c) => c.i < NumModels /\ Len(c.invoked) <= c.i + 1
                /\ RunEnded(c)
                      => Cardinality({q \in {"s", "f", "e"} :
                            \/ q = "s" /\ Succeeded(c)
                            \/ q = "f" /\ FailedFatal(c)
                            \/ q = "e" /\ FailedExhausted(c)}) = 1)
    /\ [][\A s \in Slots :
            (Trying(calls[s]) /\ Trying(calls'[s])) => calls'[s].i >= calls[s].i]_vars
    /\ \A s \in Slots : Trying(calls[s]) ~> ~Trying(calls[s])

\* a run succeeded on the last backend after the failures of all the others
C24_Witness ==
    \E s \in Slots :
        /\ RunEnded(calls[s])
        /\ Succeeded(calls[s])
        /\ calls[s].invoked = <<1, 2, 3>>
        /\ ~FailedFatal(calls[s])
        /\ ~FailedExhausted(calls[s])

\* C26: store read failure degrades to a miss: a call whose read of the store
\* failed (500, transport error, timeout) does not fail for that: it goes on as
\* after a miss, runs the orchestrator from the first backend and returns the
\* generated text with cached = false; it fails only as a miss would, when the
\* orchestrator fails.
C26_ReadFailureIsMiss ==
    [][\A s \in Slots :
          LET c == calls'[s]
          IN  /\ (calls[s].pc \in {"read", "readTs"} /\ c.getStatus = 500)
                 => /\ c.pc = "invoke"
                    /\ c.i = 0
                    /\ c.invoked = <<>>
                    /\ c.rkind = "none"
              /\ (c.pc = "done" /\ c.getStatus = 500)
                 => /\ c.invoked # <<>>
                    /\ IsSuccess(c.resp) => ReturnedGenerated(c)
                    /\ ~IsSuccess(c.resp)
                          => /\ c.rkind = "error"
                             /\ c.rerror.kind \in {"fatal", "exhausted"}]_vars

\* the read of an entry that is in the store failed and the call returned a
\* newly generated text
C26_Witness ==
    \E s \in Slots :
        LET c == calls[s]
        IN  /\ c.pc = "done"
            /\ c.getStatus = 500
            /\ Truthy(c.atRead.text)
            /\ c.rkind = "ok"
            /\ ~c.rcached
            /\ c.ranalysis \in GenTexts

----------------------------------------------------------------------------
(* The other requests the component sends to /api/analysis: getAnalysisByDate
   (handleDateChange), getAnalysisHistory (handleRightClick) and the POST of
   handleSaveEdit *)

\* getAnalysisByDate(dataKey, date): GET with params {dataKey, date}
getAnalysisByDate(owner, key, date) ==
    [IdleCall EXCEPT !.owner = owner, !.key = key, !.day = date,
                     !.pc = "dateRead", !.getReqs = 1]

\* handler, targetDate = requestDate: redis.get(cacheKey); a miss answers 404
\* and getAnalysisByDate returns null
HandlerGetDateText(c) ==
    LET cached == redis[<<c.day, c.key>>].text
    IN  IF Truthy(cached)
        THEN [c EXCEPT !.pc = "dateReadTs", !.text = cached,
                       !.atRead = Values(redis[<<c.day, c.key>>])]
        ELSE [c EXCEPT !.pc = "done", !.day = 0, !.getStatus = 404, !.rkind = "null",
                       !.atRead = Values(redis[<<c.day, c.key>>])]

DateReadText(s) ==
    /\ calls[s].pc = "dateRead"
    /\ calls' = [calls EXCEPT ![s] = HandlerGetDateText(calls[s])]
    /\ UNCHANGED <<uiVars, redis, now>>

DateReadTs(s) ==
    /\ calls[s].pc = "dateReadTs"
    /\ calls' = [calls EXCEPT ![s] = HandlerGetTs(calls[s])]
    /\ UNCHANGED <<uiVars, redis, now>>

\* a Redis error (500), a network error or the 5 s timeout: the outer catch of
\* getAnalysisByDate returns null
DateReadFail(s) ==
    LET c == calls[s]
    IN  /\ c.pc \in {"dateRead", "dateReadTs"}
        /\ calls' = [calls EXCEPT ![s] =
               [c EXCEPT !.pc = "done", !.text = Null, !.day = 0, !.getStatus = 500,
                         !.rkind = "null",
                         !.atRead = IF c.pc = "dateRead"
                                    THEN Values(redis[<<c.day, c.key>>])
                                    ELSE c.atRead]]
        /\ UNCHANGED <<uiVars, redis, now>>

\* handleSaveEdit(dataKey, editedAnalysis), past its guard: the POST is sent
handleSaveEdit(key, text) ==
    [IdleCall EXCEPT !.owner = "save", !.key = key, !.text = text, !.pc = "write",
                     !.postReqs = 1, !.issued = now]

\* getAnalysisHistory(dataKey): GET /api/analysis/history; the handler takes
\* today = new Date() and scans the days today, today - 1, ...
getAnalysisHistory(owner, key) ==
    [IdleCall EXCEPT !.owner = owner, !.key = key, !.pc = "histText",
                     !.getReqs = 1, !.day = Today, !.ts = now]

\* the day of iteration i of the scan
HistDay(c) == c.day - c.i

\* the entry of a day and key; days before the store was set up hold nothing
StoredAt(d, k) == IF <<d, k>> \in DOMAIN redis THEN redis[<<d, k>>] ELSE NoEntry

\* history branch: cached = redis.get(cacheKey)
HandlerHistoryText(c) ==
    [c EXCEPT !.pc = "histTs", !.text = StoredAt(HistDay(c), c.key).text]

\* a history scan that stops at the first day without an entry
HandlerHistoryTs_stopsAtGap(c) ==
    LET timestamp == StoredAt(HistDay(c), c.key).ts
        history == IF Truthy(c.text)
                   THEN Append(c.hist,
                            [date |-> HistDay(c), analysis |-> c.text,
                             timestamp |-> IF timestamp # NoTs THEN timestamp
                                           ELSE c.ts - c.i * DayLen])
                   ELSE c.hist
    IN  IF c.i + 1 < WindowDays /\ Truthy(c.text)
        THEN [c EXCEPT !.pc = "histText", !.i = c.i + 1, !.text = Null,
                       !.hist = history]
        ELSE [c EXCEPT !.pc = "done", !.i = 0, !.text = Null, !.hist = history,
                       !.getStatus = 200, !.rkind = "history"]

\* history branch: timestamp = redis.get(cacheKey:timestamp), the push, i++;
\* after the last day the 200 answer with the array
HandlerHistoryTs(c) ==
    LET timestamp == StoredAt(HistDay(c), c.key).ts
        history == IF Truthy(c.text)
                   THEN Append(c.hist,
                            [date |-> HistDay(c), analysis |-> c.text,
                             timestamp |-> IF timestamp # NoTs THEN timestamp
                                           ELSE c.ts - c.i * DayLen])
                   ELSE c.hist
    IN  IF c.i + 1 < WindowDays
        THEN [c EXCEPT !.pc = "histText", !.i = c.i + 1, !.text = Null,
                       !.hist = history]
        ELSE [c EXCEPT !.pc = "done", !.i = 0, !.text = Null, !.hist = history,
                       !.getStatus = 200, !.rkind = "history"]

HistText(s) ==
    /\ calls[s].pc = "histText"
    /\ calls' = [calls EXCEPT ![s] = HandlerHistoryText(calls[s])]
    /\ UNCHANGED <<uiVars, redis, now>>

HistTs(s) ==
    /\ calls[s].pc = "histTs"
    /\ calls' = [calls EXCEPT ![s] = HandlerHistoryTs(calls[s])]
    /\ UNCHANGED <<uiVars, redis, now>>

\* a Redis error (500), a network error or the 10 s timeout: getAnalysisHistory
\* returns []
HistFail(s) ==
    /\ calls[s].pc \in {"histText", "histTs"}
    /\ calls' = [calls EXCEPT ![s] =
           [calls[s] EXCEPT !.pc = "done", !.i = 0, !.text = Null, !.hist = <<>>,
                            !.getStatus = 500, !.rkind = "history"]]
    /\ UNCHANGED <<uiVars, redis, now>>

StoreStep ==
    \E s \in Slots :
        \/ DateReadText(s)
        \/ DateReadTs(s)
        \/ DateReadFail(s)
        \/ HistText(s)
        \/ HistTs(s)
        \/ HistFail(s)

----------------------------------------------------------------------------
(* One client at a time sending the requests of the edit modal to the store
   (save, read of a day, history), over a retention period.  The POST of a
   save is served by the same handler branch as the POST of setCachedAnalysis. *)

\* the clock runs up to the expiry of the entries written on the first day
StoreMaxNow == TTL
StoreDays == 0..DayOf(StoreMaxNow)

\* the texts typed into the edit modal
EditTexts == {"ea", "eb"}

StoreCall ==
    /\ \A s \in Slots : calls[s].pc = "idle"
    /\ \E key \in ExtKeys :
          \/ \E date \in StoreDays :
                calls' = [calls EXCEPT ![FirstFree] =
                             getAnalysisByDate("store", key, date)]
          \/ calls' = [calls EXCEPT ![FirstFree] = getAnalysisHistory("store", key)]
          \/ \E text \in EditTexts :
                calls' = [calls EXCEPT ![FirstFree] = handleSaveEdit(key, text)]
    /\ UNCHANGED <<uiVars, redis, now>>

\* the client whose POST was answered 200 reads its entry back: handleDateChange
\* with the day of the save
ReadBack ==
    \E s \in Slots :
        LET c == calls[s]
        IN  /\ c.pc = "done"
            /\ c.owner # "readback"
            /\ c.saved # NoTs
            /\ calls' = [calls EXCEPT ![s] =
                  [getAnalysisByDate("readback", c.key, DayOf(c.saved))
                      EXCEPT !.saved = c.saved, !.savedText = c.savedText,
                             !.issued = c.issued]]
            /\ UNCHANGED <<uiVars, redis, now>>

\* the request settles and the client takes its result
StoreReturn ==
    /\ \E s \in Slots :
          /\ calls[s].pc = "done"
          /\ calls' = [calls EXCEPT ![s] = IdleCall]
    /\ UNCHANGED <<uiVars, redis, now>>

\* the store right after another client saved a text for another fingerprint
OtherSaved ==
    [e \in StoreDays \X Keys |->
        IF e = <<0, "k2">>
        THEN [text |-> "ea", ts |-> 0, textExp |-> TTL, tsExp |-> TTL]
        ELSE NoEntry]

\* the clock of this client: the instants of the first day, then the midnights
TickStore ==
    \/ Advance(1, DayLen - 1)
    \/ Advance((Today + 1) * DayLen - now, StoreMaxNow)

InitStore ==
    /\ periodFilter = "7days"
    /\ data = "none"
    /\ analysis = ""
    /\ loading = FALSE
    /\ error = NoError
    /\ isGenerating = FALSE
    /\ lastProcessedKey = Null
    /\ effectPending = FALSE
    /\ lastTrigger = "none"
    /\ calls = [s \in Slots |-> IdleCall]
    /\ redis \in {[e \in StoreDays \X Keys |-> NoEntry], OtherSaved}
    /\ now = 0
    /\ KeysIdle
    /\ HttpIdle

NextStore ==
    \/ StoreCall
    \/ ReadBack
    \/ StoreReturn
    \/ \E s \in Slots :
          \/ WriteText(s)
          \/ WriteTs(s)
          \/ WriteFail(s)
    \/ StoreStep
    \/ TickStore

SpecStore == InitStore /\ [][NextStore]_vars

----------------------------------------------------------------------------
(* Two browsers on the same deployment, each with its own component and the same
   rows, sharing the store: their calls of generateWeeklyAnalysis and their
   saves interleave request by request *)

\* one response of each class that matters to the store: two texts and a
\* retryable failure
SharedResponses ==
    {r \in Responses : r.status = 429 \/ r.body \in GenTexts}

\* a browser's component calls generateWeeklyAnalysis for its rows (the effect,
\* or the refresh click with forceRefresh)
SharedCall ==
    /\ \E s \in SharedClients, key \in ExtKeys, force \in BOOLEAN :
          /\ calls[s].pc = "idle"
          /\ calls' = [calls EXCEPT ![s] =
                generateWeeklyAnalysis("ext", FALSE, key, force)]
    /\ UNCHANGED <<uiVars, redis, now>>

\* a browser's user saves an edited text
SharedSave ==
    /\ \E s \in SharedClients, key \in ExtKeys :
          /\ calls[s].pc = "idle"
          /\ calls' = [calls EXCEPT ![s] = handleSaveEdit(key, "ea")]
    /\ UNCHANGED <<uiVars, redis, now>>

\* the request settles and the browser takes its result
SharedReturn ==
    /\ \E s \in SharedClients :
          /\ calls[s].pc = "done"
          /\ calls' = [calls EXCEPT ![s] = IdleCall]
    /\ UNCHANGED <<uiVars, redis, now>>

NextShared ==
    \/ SharedCall
    \/ SharedSave
    \/ SharedReturn
    \/ CallStep(SharedResponses)

SpecShared == InitGen /\ [][NextShared]_vars

----------------------------------------------------------------------------
(* Properties of the shared store, checked under SpecShared *)

\* the request of slot s sets the text of entry e in this step
WritesText(s, e) ==
    /\ calls[s].pc = "write"
    /\ e = <<Today, calls[s].key>>
    /\ redis'[e].text = calls[s].text

\* C17 as claimed: once an entry exists, its text changes only through a manual
\* save (or by expiring): no generation replaces the text of an existing entry.
C17_OnlySaveReplaces ==
    [][\A e \in DOMAIN redis :
          (Truthy(redis[e].text) /\ redis'[e].text # redis[e].text)
             => \/ now' > now /\ redis'[e] = Expire(redis, now')[e]
                \/ \E s \in Slots : WritesText(s, e) /\ calls[s].owner = "save"]_vars

\* C17 as amended: the text of an existing entry changes only through a manual
\* save, through a forced refresh, or through a generation whose own read of
\* the store missed or failed (or by expiring); a call that was answered from
\* the cache never writes.
C17_NoWriteAfterHit ==
    [][/\ \A e \in DOMAIN redis :
             (Truthy(redis[e].text) /\ redis'[e].text # redis[e].text)
                => \/ now' > now /\ redis'[e] = Expire(redis, now')[e]
                   \/ \E s \in Slots :
                         /\ WritesText(s, e)
                         /\ \/ calls[s].owner = "save"
                            \/ calls[s].force /\ calls[s].getReqs = 0
                            \/ /\ ~calls[s].force
                               /\ calls[s].getReqs = 1
                               /\ calls[s].getStatus \in {404, 500}
       /\ \A s \in Slots :
             calls'[s].rcached
                => /\ calls'[s].postReqs = 0
                   /\ calls'[s].invoked = <<>>
                   /\ calls'[s].getStatus = 200]_vars

\* a generation that missed has replaced the text another browser's generation
\* stored in the meantime
C17_Witness ==
    \E s, t \in Slots :
        /\ s # t
        /\ calls[s].pc = "writeTs"
        /\ ~calls[s].force
        /\ calls[s].getStatus = 404
        /\ calls[t].pc = "done"
        /\ ~calls[t].force
        /\ calls[t].key = calls[s].key
        /\ calls[t].saved # NoTs
        /\ calls[t].savedText # calls[s].text
        /\ redis[<<Today, calls[s].key>>].text = calls[s].text

\* C19: shared cache across users: for one day and fingerprint, over the
\* non-forced calls of any clients, at most one successful backend generation
\* takes place: when the call of one client has generated a text and stored it,
\* no other client's non-forced call for that fingerprint that the store
\* answered holds a generated text of its own.
C19_OneGenerationPerDay ==
    \A s, t \in Slots :
        LET c == calls[s]
            d == calls[t]
        IN  (/\ s # t
             /\ c.owner = "ext" /\ ~c.force /\ IsSuccess(c.resp)
             /\ c.pc = "done" /\ c.saved # NoTs /\ DayOf(c.saved) = Today
             /\ d.owner = "ext" /\ ~d.force /\ d.key = c.key
             /\ d.getReqs = 1 /\ d.getStatus # 500)
               => ~IsSuccess(d.resp)

----------------------------------------------------------------------------
(* Properties of the store requests *)

\* the call is the GET that follows a POST answered 200
IsReadBack(c) == c.saved # NoTs /\ c.getReqs = 1 /\ c.postReqs = 0

\* C12: store round trip: a POST answered 200 followed at once, on the same
\* calendar day, by a GET of the same fingerprint that is answered: the GET
\* returns exactly the text of the POST with cached = true and the timestamp
\* the POST recorded, which is not earlier than the time the POST was sent.
C12_RoundTrip ==
    \A s \in Slots :
        LET c == calls[s]
        IN  (IsReadBack(c) /\ PastRead(c) /\ c.getStatus # 500
               /\ DayOf(now) = DayOf(c.saved))
               => /\ c.pc = "done"
                  /\ c.getStatus = 200
                  /\ c.rkind = "ok"
                  /\ c.rcached
                  /\ c.ranalysis = c.savedText
                  /\ c.rts = c.saved
                  /\ c.rts >= c.issued
                  /\ c.invoked = <<>>

\* a round trip on the second day, its POST sent before and served after a tick
C12_Witness ==
    \E s \in Slots :
        LET c == calls[s]
        IN  /\ IsReadBack(c)
            /\ c.pc = "done"
            /\ c.rcached
            /\ c.ranalysis = c.savedText
            /\ c.saved > c.issued
            /\ DayOf(c.saved) > 0

\* the days of the window of a scan begun on day d
Window(d) == {e \in (d - WindowDays + 1)..d : e >= 0}

\* C13: history scan: a scan that is answered, over a store in which only some
\* days of its window have an entry for the fingerprint, returns one element
\* per day of the window that has an entry, with the stored text, none for a
\* day without an entry or outside the window, most recent day first.  (The
\* store is compared as it is while no time has passed since the scan began.)
C13_HistoryScan ==
    \A s \in Slots :
        LET c == calls[s]
            h == c.hist
        IN  (c.pc = "done" /\ c.rkind = "history" /\ c.getStatus = 200 /\ now = c.ts)
               => /\ \A j \in 1..Len(h) :
                        /\ h[j].date \in Window(c.day)
                        /\ Truthy(redis[<<h[j].date, c.key>>].text)
                        /\ h[j].analysis = redis[<<h[j].date, c.key>>].text
                        /\ redis[<<h[j].date, c.key>>].ts # NoTs
                              => h[j].timestamp = redis[<<h[j].date, c.key>>].ts
                  /\ \A d \in Window(c.day) :
                        Truthy(redis[<<d, c.key>>].text)
                           => \E j \in 1..Len(h) : h[j].date = d
                  /\ \A j, k \in 1..Len(h) : j < k => h[j].date > h[k].date

\* a scan returned the one entry of its window, from the day before, while
\* today has none and an entry older than the window is still in the store
C13_Witness ==
    \E s \in Slots :
        LET c == calls[s]
        IN  /\ c.pc = "done"
            /\ c.rkind = "history"
            /\ c.getStatus = 200
            /\ now = c.ts
            /\ Len(c.hist) = 1
            /\ c.hist[1].date = c.day - 1
            /\ \E d \in StoreDays : d < c.day - 1 /\ Truthy(redis[<<d, c.key>>].text)

\* the save in flight sets, in this step, the text or the timestamp of entry e
SaveWrites(e) ==
    \E s \in Slots :
        /\ calls[s].owner = "save"
        /\ calls[s].key = e[2]
        /\ \/ calls[s].pc = "write" /\ e[1] = Today
           \/ calls[s].pc = "writeTs" /\ e[1] = calls[s].day

\* the read of today's entry that follows a save returned the edited text
ReadBackEdited ==
    \A s \in Slots :
        LET c == calls[s]
        IN  (c.owner = "readback" /\ c.pc = "done" /\ c.getStatus # 500
                /\ DayOf(now) = DayOf(c.saved))
               => /\ c.rkind = "ok"
                  /\ c.getStatus = 200
                  /\ c.ranalysis = c.savedText
                  /\ c.rts = c.saved

\* C14: manual override: after a save of an edited text the by-date read of
\* today's entry of that fingerprint returns exactly the edited text; a step of
\* the save changes the entry of its own day and fingerprint only, every other
\* day's and every other fingerprint's entry staying as it was; and no request of
\* the edit modal changes the text of the entry of a past day (an entry otherwise
\* changes only by expiring).
C14_ManualOverride ==
    [][/\ ReadBackEdited'
       /\ \A e \in DOMAIN redis :
             Values(redis'[e]) # Values(redis[e])
                => \/ SaveWrites(e)
                   \/ now' > now /\ redis'[e] = Expire(redis, now')[e]
       /\ \A e \in DOMAIN redis :
             (now' = now /\ redis'[e].text # redis[e].text) => e[1] = Today]_vars

\* an edited text was saved and read back on a day whose eve holds another text
\* for the same fingerprint, next to the entry of another fingerprint
C14_Witness ==
    \E s \in Slots :
        LET c == calls[s]
        IN  /\ c.owner = "readback"
            /\ c.pc = "done"
            /\ c.getStatus = 200
            /\ c.ranalysis = "eb"
            /\ Today > 0
            /\ DayOf(c.saved) = Today
            /\ redis[<<Today - 1, c.key>>].text = "ea"
            /\ \E k \in Keys \ {c.key} : Truthy(redis[<<0, k>>].text)

\* a key that is in the store was set less than the retention ago, and a key
\* that is not has left nothing behind
Retained(e) ==
    /\ IF e.text # Null THEN now < e.textExp /\ e.textExp <= now + TTL
                        ELSE e.textExp = NoTs
    /\ IF e.ts # NoTs THEN now < e.tsExp /\ e.tsExp <= now + TTL
                      ELSE e.tsExp = NoTs

\* the by-date read of the client that saved at c.saved is answered in this
\* step, the retention having elapsed since
ReadAfterRetention(s) ==
    /\ calls[s].owner = "readback"
    /\ calls[s].pc = "dateRead"
    /\ now >= calls[s].saved + TTL
    /\ calls'[s].getStatus # 500

\* C18: expiry: every write sets its key, the text or the :timestamp, to expire
\* one retention (TTL) later, the same for both; a key in the store is never
\* older than the retention; once the retention has elapsed since the write of
\* an entry its text is gone, the by-date read of it is answered 404 and
\* returns null as for an entry never written, and a history scan holds no
\* element for it.
C18_Expiry ==
    [][/\ \A e \in DOMAIN redis :
             /\ Retained(redis'[e])
             /\ (now' = now /\ redis'[e].text # redis[e].text)
                   => redis'[e].textExp = now + TTL
             /\ (now' = now /\ redis'[e].ts # redis[e].ts)
                   => redis'[e].tsExp = now + TTL
       /\ \A s \in Slots :
             /\ (calls'[s].saved # NoTs /\ now' >= calls'[s].saved + TTL)
                   => redis'[<<DayOf(calls'[s].saved), calls'[s].key>>].text = Null
             /\ ReadAfterRetention(s)
                   => /\ calls'[s].pc = "done"
                      /\ calls'[s].getStatus = 404
                      /\ calls'[s].rkind = "null"
                      /\ calls'[s].ranalysis = Null
                      /\ calls'[s].rts = NoTs
                      /\ ~calls'[s].rcached
             /\ (calls'[s].pc = "done" /\ calls'[s].rkind = "history"
                    /\ now' = calls'[s].ts)
                   => \A j \in 1..Len(calls'[s].hist) :
                         redis'[<<calls'[s].hist[j].date, calls'[s].key>>].textExp > now']_vars

\* a client that saved reads its entry back one retention later and is told
\* there is none; nothing of the entry is left in the store
C18_Witness ==
    \E s \in Slots :
        LET c == calls[s]
        IN  /\ c.owner = "readback"
            /\ c.pc = "done"
            /\ c.getStatus = 404
            /\ c.savedText \in EditTexts
            /\ now >= c.saved + TTL
            /\ redis[<<DayOf(c.saved), c.key>>] = NoEntry

\* C20: distinguishable read outcomes: a by-date read of an entry ends for its
\* caller in one of three outcomes that differ: the hit (answer 200: the text),
\* the miss (answer 404: null) and the failure (a 500, a network error or the
\* timeout), which is never handed to the caller as the null of a miss.
C20_ReadOutcomesDistinct ==
    \A s \in Slots :
        LET c == calls[s]
        IN  (c.pc = "done" /\ c.getReqs = 1 /\ c.postReqs = 0 /\ c.rkind # "history")
               => /\ c.getStatus = 200 => c.rkind = "ok" /\ Truthy(c.ranalysis)
                  /\ c.getStatus = 404 => c.rkind = "null"
                  /\ c.getStatus = 500 => c.rkind \notin {"ok", "null"}

----------------------------------------------------------------------------
(* Two browsers rendering any selections: the keys of their requests *)

InitKey ==
    /\ periodFilter = "7days"
    /\ data = "none"
    /\ analysis = ""
    /\ loading = FALSE
    /\ error = NoError
    /\ isGenerating = FALSE
    /\ lastProcessedKey = Null
    /\ effectPending = FALSE
    /\ lastTrigger = "none"
    /\ calls = [s \in Slots |-> IdleCall]
    /\ redis = [e \in Days \X Keys |-> NoEntry]
    /\ now = 0
    /\ selections \in [SharedClients -> Selections]
    /\ cacheKeys = [s \in SharedClients |-> KeysOf(selections[s])]
    /\ HttpIdle

NextKey == KeyRequest

SpecKey == InitKey /\ [][NextKey]_vars

HasColon(str) == \E j \in 1..Len(str) : str[j] = ":"

\* the Redis keys of two browsers never coincide unless day and fingerprint do
KeysApart ==
    \A s, t \in SharedClients :
        LET a == cacheKeys[s]
            b == cacheKeys[t]
        IN  /\ a.text # a.timestamp
            /\ a.text # b.timestamp
            /\ (a.text = b.text \/ a.timestamp = b.timestamp)
                  => /\ selections[s].day = selections[t].day
                     /\ a.dataKey = b.dataKey

C25_PartialHistoryOnError ==
    \A s \in Slots :
        LET c == calls[s]
        IN  (/\ c.pc = "done"
             /\ c.rkind = "history"
             /\ now = c.ts
             /\ Cardinality({d \in Window(c.day) : Truthy(redis[<<d, c.key>>].text)}) >= 2)
               => /\ c.getStatus = 200
                  /\ c.hist # <<>>

----------------------------------------------------------------------------
(* Two browsers saving edited texts for the same fingerprint while the clock
   runs: the POST handlers' SET commands interleave *)

ConcSave ==
    /\ \E s \in SharedClients, key \in ExtKeys, text \in EditTexts :
          /\ calls[s].pc = "idle"
          /\ calls' = [calls EXCEPT ![s] = handleSaveEdit(key, text)]
    /\ UNCHANGED <<uiVars, redis, now>>

NextSaves ==
    \/ ConcSave
    \/ SharedReturn
    \/ \E s \in Slots : WriteText(s) \/ WriteTs(s) \/ WriteFail(s)
    \/ Tick

SpecSaves == InitGen /\ [][NextSaves]_vars

\* C28: text/timestamp consistency under concurrent writes: when no write is in
\* progress, the :timestamp key of an entry holds the timestamp recorded by the
\* POST that wrote the text the entry holds: with the POSTs of both browsers for
\* one day and fingerprint answered, the entry is the text and the timestamp of
\* one and the same of them.
C28_TimestampOfSameWrite ==
    \A s, t \in SharedClients :
        LET c == calls[s]
            d == calls[t]
            e == redis[<<DayOf(c.saved), c.key>>]
        IN  (/\ s # t
             /\ c.pc = "done" /\ c.saved # NoTs
             /\ d.pc = "done" /\ d.saved # NoTs
             /\ d.key = c.key
             /\ DayOf(d.saved) = DayOf(c.saved))
               => \/ e.text = c.savedText /\ e.ts = c.saved
                  \/ e.text = d.savedText /\ e.ts = d.saved

----------------------------------------------------------------------------
(* Any HTTP request sent to /api/analysis and the handler's run on it, one
   step per Redis command *)

HttpMethods == {"GET", "POST", "PUT", "DELETE", "OPTIONS"}

Queries == [dataKey : {Null} \cup ExtKeys, date : {NoTs} \cup Days]

Bodies ==
    {NoBody} \cup [present : {TRUE}, dataKey : {Null} \cup ExtKeys,
                   analysis : {Null, ""} \cup EditTexts]

\* what a step of the handler leaves alone besides the store and the clock
clientVars == <<periodFilter, data, analysis, loading, error, isGenerating,
                lastProcessedKey, effectPending, lastTrigger, keyVars, calls>>

HttpSend ==
    /\ request.run.pc = "idle"
    /\ \E m \in HttpMethods, h \in BOOLEAN, q \in Queries, b \in Bodies :
          request' = [NoRequest EXCEPT !.method = m, !.history = h, !.query = q,
                                       !.body = b, !.run.owner = "http",
                                       !.run.pc = "handler"]
    /\ UNCHANGED <<clientVars, redis, now>>

\* return res.status(status)
Respond(r, status) == [r EXCEPT !.status = status, !.run.pc = "done"]

\* handler, from its entry to its first Redis command or to its answer:
\* OPTIONS, the history branch, dataKey / analysis / requestDate, the 400, the
\* choice of the branch, the 405.  Reading req.body.dataKey of a request
\* without body throws, and the catch answers 500.
handler(r) ==
    LET m == r.method
        bodyKey == IF m = "GET" THEN r.query.dataKey ELSE r.body.dataKey
        posted == IF m = "POST" THEN r.body.analysis ELSE Null
        requestDate == IF m = "GET" THEN r.query.date ELSE NoTs
        targetDate == IF requestDate # NoTs THEN requestDate ELSE Today
    IN  IF m = "OPTIONS" THEN Respond(r, 200)
        ELSE IF m = "GET" /\ r.history
        THEN IF ~Truthy(r.query.dataKey) THEN Respond(r, 400)
             ELSE [r EXCEPT !.run = getAnalysisHistory("http", r.query.dataKey)]
        ELSE IF m # "GET" /\ ~r.body.present THEN Respond(r, 500)
        ELSE IF ~Truthy(bodyKey) THEN Respond(r, 400)
        ELSE IF m = "GET" \/ ~Truthy(posted)
        THEN [r EXCEPT !.run = getAnalysisByDate("http", bodyKey, targetDate)]
        ELSE IF m = "POST" /\ Truthy(posted)
        THEN [r EXCEPT !.run.pc = "write", !.run.key = bodyKey,
                       !.run.text = posted, !.run.day = targetDate,
                       !.run.ts = now]
        ELSE Respond(r, 405)

HttpHandler ==
    /\ request.run.pc = "handler"
    /\ request' = handler(request)
    /\ UNCHANGED <<clientVars, redis, now>>

\* lookup branch: redis.get(cacheKey), 404 on a miss
HttpGetText ==
    /\ request.run.pc = "dateRead"
    /\ LET c == HandlerGetDateText(request.run)
       IN  request' = [request EXCEPT !.run = c, !.gets = @ + 1,
                                      !.status = IF c.pc = "done" THEN 404 ELSE @]
    /\ UNCHANGED <<clientVars, redis, now>>

\* lookup branch: redis.get(cacheKey:timestamp), 200
HttpGetTs ==
    /\ request.run.pc = "dateReadTs"
    /\ request' = [request EXCEPT !.run = HandlerGetTs(@), !.gets = @ + 1,
                                  !.status = 200]
    /\ UNCHANGED <<clientVars, redis, now>>

\* history branch: redis.get(cacheKey) of day today - i
HttpHistText ==
    /\ request.run.pc = "histText"
    /\ request' = [request EXCEPT !.run = HandlerHistoryText(@), !.gets = @ + 1]
    /\ UNCHANGED <<clientVars, redis, now>>

\* history branch: redis.get(cacheKey:timestamp); 200 after the last day
HttpHistTs ==
    /\ request.run.pc = "histTs"
    /\ LET c == HandlerHistoryTs(request.run)
       IN  request' = [request EXCEPT !.run = c, !.gets = @ + 1,
                                      !.status = IF c.pc = "done" THEN 200 ELSE @]
    /\ UNCHANGED <<clientVars, redis, now>>

\* save branch: redis.set(cacheKey, analysis, 'EX', ...)
HttpSetText ==
    /\ request.run.pc = "write"
    /\ redis' = SetEntryText(redis, request.run.day, request.run.key,
                             request.run.text)
    /\ request' = [request EXCEPT !.run.pc = "writeTs", !.sets = @ + 1]
    /\ UNCHANGED <<clientVars, now>>

\* save branch: redis.set(cacheKey:timestamp, timestamp, 'EX', ...), 200
HttpSetTs ==
    /\ request.run.pc = "writeTs"
    /\ redis' = SetEntryTs(redis, request.run.day, request.run.key,
                           request.run.ts)
    /\ request' = [Respond(request, 200) EXCEPT !.sets = @ + 1]
    /\ UNCHANGED <<clientVars, now>>

\* a Redis command rejects: the catch of the handler answers 500
HttpRedisError ==
    /\ request.run.pc \in {"dateRead", "dateReadTs", "histText", "histTs",
                           "write", "writeTs"}
    /\ request' = Respond(request, 500)
    /\ UNCHANGED <<clientVars, redis, now>>

\* the response is sent; the next request may come
HttpEnd ==
    /\ request.run.pc = "done"
    /\ request' = NoRequest
    /\ UNCHANGED <<clientVars, redis, now>>

NextHttp ==
    \/ HttpSend
    \/ HttpHandler
    \/ HttpGetText
    \/ HttpGetTs
    \/ HttpHistText
    \/ HttpHistTs
    \/ HttpSetText
    \/ HttpSetTs
    \/ HttpRedisError
    \/ HttpEnd
    \/ Tick

SpecHttp == InitGen /\ [][NextHttp]_vars

\* the request is answered
Answered == request.run.pc = "done"

\* the store is written only by a POST with a non-empty analysis: a POST
\* without analysis, a GET, a history GET and any other method send no SET
StoreWrittenOnlyByPost ==
    /\ [](request.sets > 0
            => request.method = "POST" /\ Truthy(request.body.analysis))
    /\ [][(request' # request /\ redis' # redis)
            => request.method = "POST" /\ Truthy(request.body.analysis)]_vars

\* C30: HTTP method handling of the persistence endpoint: a request carrying a
\* dataKey whose method is neither GET, POST nor OPTIONS is answered with 405
\* and touches the store neither for reading nor for writing; the store is
\* written only by a POST with a non-empty analysis, and a POST without
\* analysis, a GET and a history GET never modify any key.
C30_MethodHandling ==
    /\ []((/\ Answered
           /\ request.method \notin {"GET", "POST", "OPTIONS"}
           /\ Truthy(request.body.dataKey))
              => /\ request.status = 405
                 /\ request.gets = 0
                 /\ request.sets = 0)
    /\ StoreWrittenOnlyByPost

====
